---- MODULE Spec2Model ----
(***************************************************************************)
(* qyu: an in-memory job queue (src/qyu.js) and its rate limiter           *)
(* (src/RateLimiter.js).                                                   *)
(*                                                                         *)
(* Every handler of the two classes is an operator from a state record to  *)
(* a state record, written in the order of its statements; an action runs  *)
(* one handler to its end, as Node runs a callback to completion.          *)
(*                                                                         *)
(* Dates are kept relative to the present instant: `new Date()` is Now,    *)
(* a stored date is a non-positive offset in milliseconds, and the clock   *)
(* action shifts every stored date into the past.                          *)
(***************************************************************************)
EXTENDS Integers, Sequences, FiniteSets, TLC

\* ---------------------------------------------------------------- constants

\* JavaScript null: rateLimit (serial mode), statsInterval (no timer armed),
\* timeOfLastStart (never armed). No date, count or limit is ever -1.
NULL == -1

ONE_SECOND == 1000

LOWEST_PRIO == 10

\* DEFAULT_QUEUE_OPTIONS.statsInterval
STATS_INTERVAL == 500

\* ------------------------------------------------------------------- bounds

\* number of push() calls in a run
MaxJobs == 3

\* timeOfLastStart older than MaxAgeTicks clock steps is kept at that age
MaxAgeTicks == 2

\* pause() futures that may be unresolved at the same time
MaxPauses == 1

\* the clock advances by one stats interval
TickMs == STATS_INTERVAL

MaxAge == MaxAgeTicks * TickMs

\* priorities the client passes to push() (absent: DEFAULT_JOB_OPTIONS)
Priorities == {1, LOWEST_PRIO}

\* opts.rateLimit of the queues that are checked
RateLimits == {NULL, 1, 2}

JobIds == 0 .. (MaxJobs - 1)

\* new Date()
Now == 0

VARIABLES
  rateLimit,        \* opts.rateLimit
  errorListener,    \* the client subscribed to 'error'
  jobs,             \* Qyu.jobs: pending entries [id, priority], in push order
  started,          \* Qyu.started
  nextJobId,        \* the module's job counter
  running,          \* RateLimiter.running
  recentJobs,       \* RateLimiter.recentJobs: end dates
  processedJobs,    \* RateLimiter.processedJobs
  statsInterval,    \* RateLimiter.statsInterval: NULL, or ms until the next tick
  timeOfLastStart,  \* RateLimiter.timeOfLastStart
  inflight,         \* ids of the jobs whose promise is not settled
  nextTicks,        \* process.nextTick callbacks queued: emit('drain')
  drainListeners,   \* once('drain', resolve) listeners of waitForDrain()
  pauseThens,       \* pause() continuations queued (waitForDrain() resolved)
  jobLog,           \* per job: done events, error events, push future resolved
  lastStarted,      \* [id, priority] of the last dispatched job, kept
                    \* while every push() precedes every dispatch
  latePush,         \* a push() was made after a dispatch
  startDates,       \* dates of the dispatches of the last second
  emitted           \* what the last handler did, in order, with the state then

vars == << rateLimit, errorListener, jobs, started, nextJobId, running,
           recentJobs, processedJobs, statsInterval, timeOfLastStart, inflight,
           nextTicks, drainListeners, pauseThens, jobLog, lastStarted, latePush,
           startDates, emitted >>

\* ----------------------------------------------------------- state records

Cur ==
  [ jobs |-> jobs, started |-> started, nextJobId |-> nextJobId,
    running |-> running, recentJobs |-> recentJobs,
    processedJobs |-> processedJobs, statsInterval |-> statsInterval,
    timeOfLastStart |-> timeOfLastStart, inflight |-> inflight,
    nextTicks |-> nextTicks, drainListeners |-> drainListeners,
    pauseThens |-> pauseThens, jobLog |-> jobLog, lastStarted |-> lastStarted,
    latePush |-> latePush, startDates |-> startDates, emitted |-> emitted ]

Commit(s) ==
  /\ jobs' = s.jobs
  /\ started' = s.started
  /\ nextJobId' = s.nextJobId
  /\ running' = s.running
  /\ recentJobs' = s.recentJobs
  /\ processedJobs' = s.processedJobs
  /\ statsInterval' = s.statsInterval
  /\ timeOfLastStart' = s.timeOfLastStart
  /\ inflight' = s.inflight
  /\ nextTicks' = s.nextTicks
  /\ drainListeners' = s.drainListeners
  /\ pauseThens' = s.pauseThens
  /\ jobLog' = s.jobLog
  /\ lastStarted' = s.lastStarted
  /\ latePush' = s.latePush
  /\ startDates' = s.startDates
  /\ emitted' = s.emitted
  /\ UNCHANGED << rateLimit, errorListener >>

\* An entry of `emitted`: an event, with the state it was emitted in.
Ev(s, type, id, arg) ==
  [ type |-> type, id |-> id, arg |-> arg, jobs |-> s.jobs,
    running |-> s.running, started |-> s.started ]

Emit(s, type, id, arg) ==
  [s EXCEPT !.emitted = Append(@, Ev(s, type, id, arg))]

\* A handler begins: nothing is emitted yet.
Enter == [Cur EXCEPT !.emitted = << >>]

\* ------------------------------------------------------------ RateLimiter

\* RECENT_JOB_CRITERIA with `<` for `<=`
RECENT_JOB_CRITERIA_Strict(now, endDate) == now - endDate < ONE_SECOND

RECENT_JOB_CRITERIA(now, endDate) == now - endDate <= ONE_SECOND

_cleanRecentJobs(s) ==
  SelectSeq(s.recentJobs, LAMBDA endDate : RECENT_JOB_CRITERIA(Now, endDate))

_appendEndedJob(s) ==
  [s EXCEPT !.recentJobs = _cleanRecentJobs(s) \o << Now >>]

\* canRunMore with `<=` for `<`: one job too many is admitted
canRunMore_OffByOne(s) ==
  IF rateLimit = NULL
  THEN s.running <= 1
  ELSE s.running + Len(_cleanRecentJobs(s)) <= rateLimit

\* canRunMore without the sliding window: only the running jobs count
canRunMore_NoWindow(s) ==
  IF rateLimit = NULL
  THEN s.running = 0
  ELSE s.running < rateLimit

\* canRunMore that admits a job whenever nothing is running
canRunMore_IdleAdmits(s) ==
  IF rateLimit = NULL
  THEN s.running = 0
  ELSE s.running = 0 \/ s.running + Len(_cleanRecentJobs(s)) < rateLimit

\* canRunMore that admits every job in serial mode
canRunMore_SerialUnlimited(s) ==
  IF rateLimit = NULL
  THEN TRUE
  ELSE s.running + Len(_cleanRecentJobs(s)) < rateLimit

canRunMore(s) ==
  IF rateLimit = NULL
  THEN s.running = 0
  ELSE s.running + Len(_cleanRecentJobs(s)) < rateLimit

\* toggle without the early return: toggle(true) arms an armed timer again
toggle_AlwaysRearms(s, enable) ==
  IF enable
  THEN [s EXCEPT !.timeOfLastStart = Now,
                 !.processedJobs = 0,
                 !.statsInterval = STATS_INTERVAL]
  ELSE [s EXCEPT !.statsInterval = NULL]

\* toggle whose timer fires at once, and then at every interval
toggle_ArmsDue(s, enable) ==
  IF enable = (s.statsInterval # NULL)
  THEN s
  ELSE IF enable
       THEN [s EXCEPT !.timeOfLastStart = Now,
                      !.processedJobs = 0,
                      !.statsInterval = 0]
       ELSE [s EXCEPT !.statsInterval = NULL]

toggle(s, enable) ==
  IF enable = (s.statsInterval # NULL)
  THEN s
  ELSE IF enable
       THEN [s EXCEPT !.timeOfLastStart = Now,
                      !.processedJobs = 0,
                      !.statsInterval = STATS_INTERVAL]
       ELSE [s EXCEPT !.statsInterval = NULL]

\* jobStarted that counts the job as processed but not as running
jobStarted_NotRunning(s) ==
  [s EXCEPT !.processedJobs = @ + 1]

jobStarted(s) ==
  [s EXCEPT !.running = @ + 1, !.processedJobs = @ + 1]

\* 'avail' has no subscriber (Qyu listens to 'stats' only), so neither branch
\* of `if (canRunMore)` nor the timeout of _emitOnNextAvail changes any state.
jobEnded(s) ==
  LET s1 == _appendEndedJob([s EXCEPT !.running = @ - 1])
  IN  IF s1.running = 0
      THEN [s1 EXCEPT !.nextTicks = @ + 1]
      ELSE s1

\* waitForDrain that always waits for the next 'drain' event
waitForDrain_AlwaysListens(s) ==
  [s EXCEPT !.drainListeners = @ + 1]

waitForDrain(s) ==
  IF s.running = 0
  THEN [s EXCEPT !.pauseThens = @ + 1]
  ELSE [s EXCEPT !.drainListeners = @ + 1]

\* -------------------------------------------------------------------- Qyu

\* _readyToRunJobs without the test of `started`
_readyToRunJobs_IgnoresStarted(s) ==
  Len(s.jobs) # 0 /\ canRunMore(s)

_readyToRunJobs(s) ==
  s.started /\ Len(s.jobs) # 0 /\ canRunMore(s)

\* Math.max for Math.min
MinOf_Max(S) == CHOOSE m \in S : \A x \in S : m >= x

\* Math.min.apply(Math, ...)
MinOf(S) == CHOOSE m \in S : \A x \in S : m <= x

\* the last match for the first
FindFirst_Last(seq, priority) ==
  seq[CHOOSE i \in DOMAIN seq :
        /\ seq[i].priority = priority
        /\ \A k \in (i + 1) .. Len(seq) : seq[k].priority # priority]

\* this.jobs.find(job => job.opts.priority === priority): the first match
FindFirst(seq, priority) ==
  seq[CHOOSE i \in DOMAIN seq :
        /\ seq[i].priority = priority
        /\ \A k \in 1 .. (i - 1) : seq[k].priority # priority]

\* _processJob without `this.jobs = this.jobs.filter(...)`: the job it runs
\* stays in pending
_processJob_KeepsPending(s) ==
  IF _readyToRunJobs(s)
  THEN LET priority == MinOf({s.jobs[i].priority : i \in DOMAIN s.jobs})
           job == FindFirst(s.jobs, priority)
           s1 == Emit(s, "dispatch", job.id, s.lastStarted)
           s3 == jobStarted(s1)
       IN  [s3 EXCEPT !.inflight = @ \cup {job.id},
                      !.lastStarted = IF s.latePush THEN @ ELSE
                          [id |-> job.id, priority |-> job.priority],
                      !.startDates = Append(@, Now)]
  ELSE s

_processJob(s) ==
  IF _readyToRunJobs(s)
  THEN LET priority == MinOf({s.jobs[i].priority : i \in DOMAIN s.jobs})
           job == FindFirst(s.jobs, priority)
           s1 == Emit(s, "dispatch", job.id, s.lastStarted)
           s2 == [s1 EXCEPT !.jobs = SelectSeq(@, LAMBDA j : j.id # job.id)]
           s3 == jobStarted(s2)
       IN  [s3 EXCEPT !.inflight = @ \cup {job.id},
                      !.lastStarted = IF s.latePush THEN @ ELSE
                          [id |-> job.id, priority |-> job.priority],
                      !.startDates = Append(@, Now)]
  ELSE s

\* _processJobs without the loop: one job at most
_processJobs_Once(s) == _processJob(s)

RECURSIVE _processJobs(_)
_processJobs(s) ==
  LET s1 == _processJob(s)
  IN  IF _readyToRunJobs(s1) THEN _processJobs(s1) ELSE s1

\* _drainIfNoMore without the test of `running`
_drainIfNoMore_IgnoresRunning(s) ==
  IF Len(s.jobs) = 0
  THEN toggle(Emit(s, "drain", NULL, NULL), FALSE)
  ELSE s

_drainIfNoMore(s) ==
  IF Len(s.jobs) = 0 /\ s.running = 0
  THEN toggle(Emit(s, "drain", NULL, NULL), FALSE)
  ELSE s

\* job.job(): what the promise of job `id` is fulfilled with, and what it is
\* rejected with. Two jobs never give the same value, and no result is an
\* error.
JobResult(id) == << "result", id >>

JobError(id) == << "error", id >>

\* _jobEnded that calls _drainIfNoMore before it emits done or error
_jobEnded_DrainFirst(s, id, withError) ==
  LET s1 == _drainIfNoMore(jobEnded(s))
  IN  IF withError
      THEN LET s2 == [Emit(s1, "error", id, JobError(id))
                        EXCEPT !.jobLog[id].error = @ + 1]
           IN  IF errorListener THEN _processJobs(s2) ELSE s2
      ELSE LET s2 == [Emit(s1, "done", id, JobResult(id))
                        EXCEPT !.jobLog[id].done = @ + 1]
               s3 == [Emit(s2, "push resolved", id, JobResult(id))
                        EXCEPT !.jobLog[id].resolved = TRUE]
           IN  _processJobs(s3)

\* _jobEnded that reports a success through error as well
_jobEnded_DoneAndError(s, id, withError) ==
  LET s1 == jobEnded(s)
      s2 == IF withError THEN s1
            ELSE [Emit(Emit(s1, "done", id, JobResult(id)),
                       "push resolved", id, JobResult(id))
                    EXCEPT !.jobLog[id].done = @ + 1,
                           !.jobLog[id].resolved = TRUE]
      s3 == [Emit(s2, "error", id, JobError(id))
               EXCEPT !.jobLog[id].error = @ + 1]
  IN  _processJobs(_drainIfNoMore(s3))

\* _jobEnded that resolves the push future of the oldest job
_jobEnded_ResolvesOldest(s, id, withError) ==
  LET s1 == jobEnded(s)
  IN  IF withError
      THEN LET s2 == [Emit(s1, "error", id, JobError(id))
                        EXCEPT !.jobLog[id].error = @ + 1]
           IN  IF errorListener
               THEN _processJobs(_drainIfNoMore(s2))
               ELSE s2
      ELSE LET s2 == [Emit(s1, "done", id, JobResult(id))
                        EXCEPT !.jobLog[id].done = @ + 1]
               s3 == [Emit(s2, "push resolved", 0, JobResult(id))
                        EXCEPT !.jobLog[0].resolved = TRUE]
           IN  _processJobs(_drainIfNoMore(s3))

\* _jobEnded with `job.pushPromise.resolve` in the failure branch too
_jobEnded_ResolvesOnError(s, id, withError) ==
  LET s1 == jobEnded(s)
      s2 == IF withError
            THEN [Emit(s1, "error", id, JobError(id))
                    EXCEPT !.jobLog[id].error = @ + 1]
            ELSE [Emit(s1, "done", id, JobResult(id))
                    EXCEPT !.jobLog[id].done = @ + 1]
      s3 == [Emit(s2, "push resolved", id, JobResult(id))
               EXCEPT !.jobLog[id].resolved = TRUE]
  IN  IF withError /\ ~errorListener
      THEN s2
      ELSE _processJobs(_drainIfNoMore(s3))

\* emit('error') of an EventEmitter without an 'error' listener throws: the
\* rest of _jobEnded is then skipped (the promise chain swallows the throw).
\* job.pushPromise.resolve(doneObj) is recorded as the event "push resolved".
_jobEnded(s, id, withError) ==
  LET s1 == jobEnded(s)
  IN  IF withError
      THEN LET s2 == [Emit(s1, "error", id, JobError(id))
                        EXCEPT !.jobLog[id].error = @ + 1]
           IN  IF errorListener
               THEN _processJobs(_drainIfNoMore(s2))
               ELSE s2
      ELSE LET s2 == [Emit(s1, "done", id, JobResult(id))
                        EXCEPT !.jobLog[id].done = @ + 1]
               s3 == [Emit(s2, "push resolved", id, JobResult(id))
                        EXCEPT !.jobLog[id].resolved = TRUE]
           IN  _processJobs(_drainIfNoMore(s3))

\* push without `this._processJobs()`
push_NoDispatch(s, priority) ==
  LET id == s.nextJobId
      s1 == [s EXCEPT !.nextJobId = @ + 1,
                      !.jobs = Append(@, [id |-> id, priority |-> priority]),
                      !.latePush = (@ \/ s.lastStarted.id # NULL),
                      !.lastStarted = [id |-> NULL, priority |-> NULL]]
  IN  IF s1.started THEN toggle(s1, TRUE) ELSE s1

\* push with `nextJobId` for `nextJobId++`
push_NoIncrement(s, priority) ==
  LET id == s.nextJobId
      s1 == [s EXCEPT !.jobs = Append(@, [id |-> id, priority |-> priority]),
                      !.latePush = (@ \/ s.lastStarted.id # NULL),
                      !.lastStarted = [id |-> NULL, priority |-> NULL]]
      s2 == IF s1.started THEN toggle(s1, TRUE) ELSE s1
  IN  _processJobs(s2)

\* push without `this.rateLimiter.toggle(true)`
push_NoToggle(s, priority) ==
  LET id == s.nextJobId
      s1 == [s EXCEPT !.nextJobId = @ + 1,
                      !.jobs = Append(@, [id |-> id, priority |-> priority]),
                      !.latePush = (@ \/ s.lastStarted.id # NULL),
                      !.lastStarted = [id |-> NULL, priority |-> NULL]]
  IN  _processJobs(s1)

push(s, priority) ==
  LET id == s.nextJobId
      s1 == [s EXCEPT !.nextJobId = @ + 1,
                      !.jobs = Append(@, [id |-> id, priority |-> priority]),
                      !.latePush = (@ \/ s.lastStarted.id # NULL),
                      !.lastStarted = [id |-> NULL, priority |-> NULL]]
      s2 == IF s1.started THEN toggle(s1, TRUE) ELSE s1
  IN  _processJobs(s2)

\* pause that calls _drainIfNoMore as start does
pause_Drains(s) ==
  waitForDrain(_drainIfNoMore([s EXCEPT !.started = FALSE]))

pause(s) == waitForDrain([s EXCEPT !.started = FALSE])

\* start whose future resolves only when no job is running
start_WaitsForJobs(s) ==
  LET s1 == [s EXCEPT !.started = TRUE]
      s2 == toggle(s1, TRUE)
      s3 == _drainIfNoMore(s2)
      s4 == _processJobs(s3)
  IN  IF s4.running = 0
      THEN Emit(s4, "start resolved", NULL, NULL)
      ELSE s4

start(s) ==
  LET s1 == [s EXCEPT !.started = TRUE]
      s2 == toggle(s1, TRUE)
      s3 == _drainIfNoMore(s2)
      s4 == _processJobs(s3)
  IN  Emit(s4, "start resolved", NULL, NULL)

\* ---------------------------------------------------------------- actions

Init ==
  /\ rateLimit \in RateLimits
  /\ errorListener \in BOOLEAN
  /\ jobs = << >>
  /\ started = FALSE
  /\ nextJobId = 0
  /\ running = 0
  /\ recentJobs = << >>
  /\ processedJobs = 0
  /\ statsInterval = NULL
  /\ timeOfLastStart = NULL
  /\ inflight = {}
  /\ nextTicks = 0
  /\ drainListeners = 0
  /\ pauseThens = 0
  /\ jobLog = [id \in JobIds |-> [done |-> 0, error |-> 0, resolved |-> FALSE]]
  /\ lastStarted = [id |-> NULL, priority |-> NULL]
  /\ latePush = FALSE
  /\ startDates = << >>
  /\ emitted = << >>

Push ==
  /\ nextJobId < MaxJobs
  /\ \E priority \in Priorities :
       \E s \in {push(Enter, priority)} : Commit(s)

Start ==
  \E s \in {start(Enter)} : Commit(s)

Pause ==
  /\ drainListeners + pauseThens < MaxPauses
  /\ \E s \in {pause(Enter)} : Commit(s)

\* the promise of a running job is fulfilled
JobSucceeds(id) ==
  /\ id \in inflight
  /\ \E s \in {_jobEnded([Enter EXCEPT !.inflight = @ \ {id}], id, FALSE)} :
       Commit(s)

\* the promise of a running job is rejected
JobFails(id) ==
  /\ id \in inflight
  /\ \E s \in {_jobEnded([Enter EXCEPT !.inflight = @ \ {id}], id, TRUE)} :
       Commit(s)

\* process.nextTick(() => this.emit('drain')): every once('drain') listener
\* resolves the promise of its waitForDrain()
DrainTick ==
  /\ nextTicks > 0
  /\ \E s \in {[Enter EXCEPT !.nextTicks = @ - 1,
                              !.pauseThens = @ + drainListeners,
                              !.drainListeners = 0]} :
       Commit(s)

\* the continuation of pause(): toggle(false), and the future of pause()
\* is resolved
PauseThen ==
  /\ pauseThens > 0
  /\ \E s \in {toggle([Enter EXCEPT !.pauseThens = @ - 1], FALSE)} :
       Commit(Emit(s, "pause resolved", NULL, NULL))

\* no timer fires while a nextTick callback or a promise reaction is queued
QueuesEmpty == nextTicks = 0 /\ pauseThens = 0

\* _stats that reports the dispatches of the last second: a rolling window
_stats_RollingWindow(s) ==
  Emit(s, "stats", NULL, << ONE_SECOND * Len(s.startDates), ONE_SECOND >>)

\* RateLimiter._stats: emit('stats', {nbJobsPerSecond}), the quotient of
\* ONE_SECOND * processedJobs by the time since timeOfLastStart
_stats(s) ==
  Emit(s, "stats", NULL, << ONE_SECOND * s.processedJobs, Now - s.timeOfLastStart >>)

\* the interval of toggle(true) fires: RateLimiter._stats, then the 'stats'
\* handler of the Qyu constructor
StatsTick ==
  /\ QueuesEmpty
  /\ statsInterval # NULL
  /\ statsInterval <= 0
  /\ \E s \in {_processJobs(_stats([Enter EXCEPT
                                       !.statsInterval = STATS_INTERVAL]))} :
       Commit(s)

Older(date) == IF date - TickMs < -MaxAge THEN -MaxAge ELSE date - TickMs

\* what the clock does to the stored dates
Aged(s) ==
  LET s1 == [s EXCEPT
               !.recentJobs = [i \in DOMAIN @ |-> @[i] - TickMs],
               !.startDates = [i \in DOMAIN @ |-> @[i] - TickMs],
               !.timeOfLastStart =
                  IF @ = NULL THEN NULL
                  ELSE IF s.statsInterval = NULL THEN -MaxAge
                  ELSE Older(@),
               !.statsInterval = IF @ = NULL THEN NULL ELSE @ - TickMs]
  IN  [s1 EXCEPT
         !.recentJobs = _cleanRecentJobs(s1),
         !.startDates = SelectSeq(@, LAMBDA d : Now - d < ONE_SECOND)]

\* TickMs milliseconds pass; a due timer fires first. Every stored date moves
\* into the past. A date that no later read can tell from an older one is not
\* kept apart: an end date that fails RECENT_JOB_CRITERIA fails it for ever
\* and recentJobs is read through _cleanRecentJobs only, so it is dropped;
\* timeOfLastStart is read by the armed interval only (_stats) and is
\* overwritten when toggle(true) arms it, so it stops at MaxAge at once when
\* no interval is armed.
Tick ==
  /\ QueuesEmpty
  /\ statsInterval = NULL \/ statsInterval > 0
  /\ \E s \in {Aged(Enter)} : Commit(s)

JobSettles(id) == JobSucceeds(id) \/ JobFails(id)

Next ==
  \/ Push
  \/ Start
  \/ Pause
  \/ \E id \in JobIds : JobSucceeds(id)
  \/ \E id \in JobIds : JobFails(id)
  \/ DrainTick
  \/ PauseThen
  \/ StatsTick
  \/ Tick

Spec == Init /\ [][Next]_vars

\* Every job in flight eventually completes: no job stays in flight for
\* ever. JobSettles(id) is enabled exactly while id is in flight and is the
\* only step that takes id out of inflight, so this is WF_vars(JobSettles(id))
\* for every id, stated on the states.
JobsComplete == \A id \in JobIds : []<>(id \notin inflight)

\* The event loop runs what is queued: a nextTick callback and a promise
\* reaction run, and the promise of a job in flight settles. Nothing obliges
\* the client to call push, start or pause.
Fairness ==
  /\ WF_vars(DrainTick)
  /\ WF_vars(PauseThen)
  /\ JobsComplete

LiveSpec == Spec /\ Fairness

\* ------------------------------------------- a queue paused more than once

\* push() calls in a run of PauseAgainSpec
MaxJobsPausedAgain == 2

\* pause() futures that may be unresolved at the same time in PauseAgainSpec
MaxPausesAgain == 2

PushFew ==
  /\ nextJobId < MaxJobsPausedAgain
  /\ \E priority \in Priorities :
       \E s \in {push(Enter, priority)} : Commit(s)

\* pause(), also while the future of an earlier pause() is unresolved
PauseAgain ==
  /\ drainListeners + pauseThens < MaxPausesAgain
  /\ \E s \in {pause(Enter)} : Commit(s)

PauseAgainNext ==
  \/ PushFew
  \/ Start
  \/ PauseAgain
  \/ \E id \in JobIds : JobSucceeds(id)
  \/ \E id \in JobIds : JobFails(id)
  \/ DrainTick
  \/ PauseThen
  \/ StatsTick
  \/ Tick

PauseAgainSpec == Init /\ [][PauseAgainNext]_vars

\* ------------------------------------------------ the admission decision

\* running, for the admission decision taken alone
MaxRunning == 3

\* end dates recorded, for the admission decision taken alone
MaxRecent == 3

\* end dates on both sides of the window's edge
EndDates == {Now, Now - TickMs, Now - ONE_SECOND, Now - ONE_SECOND - 1}

\* the oldest end date the clock of AdmissionSpec lets a date become
OldestEndDate == Now - 2 * ONE_SECOND - 1

\* recentJobs is appended to at the present instant: older dates first
EndDateSeqs ==
  {seq \in UNION {[1 .. n -> EndDates] : n \in 0 .. MaxRecent} :
     \A i \in 1 .. (Len(seq) - 1) : seq[i] <= seq[i + 1]}

\* a rate limiter in any state: canRunMore reads opts.rateLimit, running and
\* recentJobs
AdmissionInit ==
  /\ rateLimit \in RateLimits
  /\ errorListener = TRUE
  /\ jobs = << >>
  /\ started = FALSE
  /\ nextJobId = 0
  /\ running \in 0 .. MaxRunning
  /\ recentJobs \in EndDateSeqs
  /\ processedJobs = 0
  /\ statsInterval = NULL
  /\ timeOfLastStart = NULL
  /\ inflight = {}
  /\ nextTicks = 0
  /\ drainListeners = 0
  /\ pauseThens = 0
  /\ jobLog = [id \in JobIds |-> [done |-> 0, error |-> 0, resolved |-> FALSE]]
  /\ lastStarted = [id |-> NULL, priority |-> NULL]
  /\ latePush = FALSE
  /\ startDates = << >>
  /\ emitted = << >>

\* canRunMore() is called: its result is recorded
AskCanRunMore ==
  \E s \in {Emit(Enter, "canRunMore", NULL, canRunMore(Enter))} : Commit(s)

\* TickMs milliseconds pass: the recorded end dates are older, none is removed
ClockAdvances ==
  /\ \A i \in DOMAIN recentJobs : recentJobs[i] - TickMs >= OldestEndDate
  /\ \E s \in {[Enter EXCEPT
                    !.recentJobs = [i \in DOMAIN @ |-> @[i] - TickMs]]} :
       Commit(s)

AdmissionNext == AskCanRunMore \/ ClockAdvances

AdmissionSpec == AdmissionInit /\ [][AdmissionNext]_vars

\* --------------------------------------------------- start(); pause(); cycles

\* The client of priorities.tests.js: it pushes jobs and, when jobs are
\* pending and nothing is in flight, calls start() and then pause() before
\* the job that start() dispatched can complete.
StartThenPause ==
  /\ jobs # << >> /\ running = 0
  /\ drainListeners + pauseThens < MaxPausesAgain
  /\ \E s \in {pause(start(Enter))} : Commit(s)

CycleNext ==
  \/ PushFew
  \/ StartThenPause
  \/ \E id \in JobIds : JobSucceeds(id)
  \/ \E id \in JobIds : JobFails(id)
  \/ DrainTick
  \/ PauseThen
  \/ StatsTick
  \/ Tick

CycleSpec == Init /\ [][CycleNext]_vars

\* ------------------------------------------------------------------ claims

\* the events of one type among those of the last handler
Events(type) == {i \in DOMAIN emitted : emitted[i].type = type}

\* the pending entry that a dispatch event took, and its place in pending
PlaceOf(e) == CHOOSE k \in DOMAIN e.jobs : e.jobs[k].id = e.id

JobOf(e) == e.jobs[PlaceOf(e)]

WithinLimit(n) ==
  /\ 0 <= n
  /\ rateLimit = NULL => n <= 1
  /\ rateLimit # NULL => n <= rateLimit

\* C1: the running counter stays within [0, rateLimit] when rateLimit is a
\* number and within [0, 1] in serial mode, after every handler and at every
\* event a handler emits on its way.
C1_RunningWithinLimit ==
  /\ WithinLimit(running)
  /\ \A i \in DOMAIN emitted : WithinLimit(emitted[i].running)

\* rateLimit jobs are in flight at once and one more is refused
C1_Witness ==
  /\ rateLimit = 2
  /\ running = 2
  /\ started
  /\ Len(jobs) = 1

\* C2: in rate-limited mode, at most rateLimit + 1 jobs were dispatched in
\* the rolling window (t - 1000 ms, t], at every instant t.
C2_RollingWindow ==
  rateLimit # NULL => Len(startDates) <= rateLimit + 1

\* the window is full: a job waits although nothing runs
C2_Witness ==
  /\ rateLimit = 1
  /\ started
  /\ running = 0
  /\ Len(jobs) = 2
  /\ Len(startDates) = 1
  /\ Len(recentJobs) = 1

\* C3: a dispatch takes the pending entry of the smallest priority value,
\* and among these the one pushed first; and when every push() precedes every
\* dispatch, the jobs are dispatched in ascending (priority, push order).
C3_DispatchOrder ==
  \A i \in Events("dispatch") :
    LET e == emitted[i]
        job == JobOf(e)
    IN  /\ \A k \in DOMAIN e.jobs :
              \/ job.priority < e.jobs[k].priority
              \/ job.priority = e.jobs[k].priority /\ PlaceOf(e) <= k
        /\ e.arg.id # NULL =>
              \/ e.arg.priority < job.priority
              \/ e.arg.priority = job.priority /\ e.arg.id < job.id

\* three jobs pushed before start(): the job pushed second (priority 1) has
\* run, and the job pushed third (priority 1) is taken before the first (10)
C3_Witness ==
  /\ ~latePush
  /\ \E i \in Events("dispatch") :
       /\ emitted[i].id = 2
       /\ emitted[i].arg = [id |-> 1, priority |-> 1]
       /\ emitted[i].jobs = << [id |-> 0, priority |-> LOWEST_PRIO],
                               [id |-> 2, priority |-> 1] >>

\* C4: of two jobs pushed with the same priority, the one pushed first (the
\* smaller id) is dispatched first, in every interleaving.
C4_FifoWithinPriority ==
  \A i \in Events("dispatch") :
    \A k \in DOMAIN emitted[i].jobs :
      emitted[i].jobs[k].priority = JobOf(emitted[i]).priority
        => emitted[i].id <= emitted[i].jobs[k].id

\* a job pushed after a dispatch waits behind an older job of its priority
C4_Witness ==
  /\ latePush
  /\ \E i \in Events("dispatch") :
       /\ emitted[i].id = 1
       /\ emitted[i].jobs = << [id |-> 1, priority |-> 1],
                               [id |-> 2, priority |-> 1] >>

\* C5: no job is dispatched while started = false, whatever the handler;
\* a job in flight when pause() is called still completes.
C5_NoDispatchWhilePaused ==
  /\ \A i \in Events("dispatch") : emitted[i].started
  /\ ~started => Events("dispatch") = {}

\* a job completes while the queue is paused and the pending job stays
C5_Witness ==
  /\ ~started
  /\ Events("done") # {}
  /\ running = 0
  /\ Len(jobs) = 1
  /\ rateLimit = NULL

\* C7: whenever drain is emitted, pending is empty and running is 0.
C7_DrainWhenIdle ==
  \A i \in Events("drain") :
    emitted[i].jobs = << >> /\ emitted[i].running = 0

\* the last of two jobs in flight completes: drain
C7_Witness ==
  /\ rateLimit = 2
  /\ Events("drain") # {}
  /\ Events("done") # {}
  /\ jobLog[0].error = 1

Quiescent == jobs = << >> /\ running = 0

\* what C8 asks of one step: at most one drain; exactly one when start() is
\* called on a quiescent queue or ends on one, and when a handler brings the
\* queue from work to quiescence; none otherwise
OneDrainPerEpisode ==
  LET drains == Cardinality(Events("drain")')
      startCall == Events("start resolved")' # {}
  IN  /\ drains <= 1
      /\ (Quiescent' /\ (startCall \/ ~Quiescent)) => drains = 1
      /\ drains = 1 => (startCall \/ ~Quiescent)

\* C8: each episode from a start() to quiescence (pending empty, running 0)
\* emits exactly one drain: never none, never two for the same quiescence.
C8_Original == [][OneDrainPerEpisode]_vars

\* C8 holds of the queues that have an 'error' listener
C8_WithErrorListener == [][errorListener => OneDrainPerEpisode]_vars

\* C6: once start() is called and the queue is not paused afterwards
\* (started is true), every pushed job produces a done or an error event.
\* Jobs are dispatched only by a client call, by the end of a job in flight
\* and by the stats interval, so a started queue with pending jobs must
\* have a job in flight or its interval armed: otherwise, when the client
\* calls nothing more, the pending jobs never run, in whatever way the jobs
\* complete, the timers fire and time advances.
C6_Original ==
  (started /\ jobs # << >>) => (inflight # {} \/ statsInterval # NULL)

\* C9: when the future of a pause() call resolves, running = 0.
C9_Original ==
  \A i \in Events("pause resolved") : emitted[i].running = 0

PauseCalled ==
  drainListeners' + pauseThens' > drainListeners + pauseThens

\* C10: every pause() call eventually resolves when the jobs in flight
\* eventually complete, whether they succeed or fail; called with
\* running = 0, its continuation is queued at once and no 'drain' listener
\* is registered, so it waits for no job event.
C10_PauseResolves ==
  /\ (drainListeners + pauseThens > 0) ~> (Events("pause resolved") # {})
  /\ [][(PauseCalled /\ running = 0) =>
          (pauseThens' = pauseThens + 1 /\ drainListeners' = drainListeners)]_vars

\* the future of a pause() resolves after the only job has failed
C10_Witness ==
  /\ Events("pause resolved") # {}
  /\ nextJobId = 1
  /\ jobLog[0].error = 1
  /\ ~started
  /\ statsInterval = NULL

Outcomes == Events("done") \cup Events("error")

Settled(id) == jobLog[id].done + jobLog[id].error

\* C11: a drain is emitted after the done or error event of every job that
\* completed before that quiescence: every pushed job has its event by then,
\* and when the drain follows the completion of the last job, it comes
\* straight after that job's done or error, nothing being dispatched between.
C11_DrainAfterOutcomes ==
  \A i \in Events("drain") :
    /\ \A k \in Outcomes : k < i
    /\ \A k \in 1 .. (i - 1) :
         emitted[k].type \in {"done", "push resolved", "error"}
    /\ \A id \in JobIds : id < nextJobId => Settled(id) = 1

\* two jobs: the done of the second, then drain
C11_Witness ==
  /\ nextJobId = 2
  /\ Len(emitted) = 3
  /\ emitted[1].type = "done" /\ emitted[1].id = 1
  /\ emitted[3].type = "drain"
  /\ jobLog[0].done = 1

C14_DoneThenResolve ==
  /\ \A i \in Events("done") :
       /\ emitted[i].arg = JobResult(emitted[i].id)
       /\ i + 1 \in Events("push resolved")
       /\ emitted[i + 1].id = emitted[i].id
       /\ emitted[i + 1].arg = emitted[i].arg
  /\ \A i \in Events("push resolved") : i - 1 \in Events("done")
  /\ \A id \in JobIds : jobLog[id].resolved <=> jobLog[id].done = 1

\* the job pushed second succeeds while the first is still in flight
C14_Witness ==
  /\ \E i \in Events("done") : emitted[i].id = 1
  /\ jobLog[1].resolved
  /\ ~jobLog[0].resolved
  /\ 0 \in inflight

\* C15: a failure emits error with the job's id and error, and the push
\* future of that job is never resolved (the code has no call that rejects
\* it: qyu.js:111 is a comment).
C15_ErrorLeavesPushPending ==
  /\ \A i \in Events("error") :
       /\ emitted[i].arg = JobError(emitted[i].id)
       /\ \A k \in Events("push resolved") : emitted[k].id # emitted[i].id
  /\ \A id \in JobIds : jobLog[id].error = 1 => ~jobLog[id].resolved

\* job 0 failed earlier and job 1 fails now; their futures stay pending
C15_Witness ==
  /\ errorListener
  /\ \E i \in Events("error") : emitted[i].id = 1
  /\ jobLog[0].error = 1
  /\ ~jobLog[0].resolved /\ ~jobLog[1].resolved

\* _readyToRunJobs of the present state
Ready == _readyToRunJobs(Cur)

\* what C16 asks of the step in which a job fails: running is decremented
\* when error is emitted, the completion date enters recentJobs, the job
\* stays counted in processedJobs, dispatch has run again (nothing is left
\* that could be dispatched at once) and drain is emitted if the queue is
\* left with nothing pending and nothing running
FailureAbsorbed ==
  \A i \in Events("error")' :
    /\ emitted'[i].running = running - 1
    /\ recentJobs' # << >>
    /\ recentJobs'[Len(recentJobs')] = Now
    /\ processedJobs' >= processedJobs
    /\ ~Ready'
    /\ Quiescent' => Events("drain")' # {}

\* C16: a job failure is handled like a success by the scheduler: running
\* is decremented, the completion date enters the sliding window, the job
\* stays counted in processedJobs, dispatch is invoked again so that the
\* pending jobs still run, and drain is emitted if the job was the last one.
C16_Original == [][FailureAbsorbed]_vars

\* C16 holds of the queues that have an 'error' listener
C16_WithErrorListener == [][errorListener => FailureAbsorbed]_vars

\* every pause() has resolved and no start() followed, or start() was never
\* called
FullyPaused == ~started /\ running = 0 /\ drainListeners = 0 /\ pauseThens = 0

\* C17: no stats event is emitted while the stats timer is disarmed; the
\* timer is disarmed before the first start() and after the resolution of a
\* pause() until the next start() (fully paused), and whenever the queue
\* has drained (nothing pending, nothing running).
C17_Original ==
  /\ Events("stats") # {} => statsInterval # NULL
  /\ FullyPaused => statsInterval = NULL
  /\ Quiescent => statsInterval = NULL

\* C17 holds of the queues that have an 'error' listener
C17_WithErrorListener == errorListener => C17_Original

\* a push() on a started queue that has drained
PushAfterDrain ==
  /\ started /\ Quiescent /\ statsInterval = NULL
  /\ nextJobId' = nextJobId + 1

C19_StartResolves ==
  [][/\ (~started /\ started') => Events("start resolved")' # {}
     /\ \A i \in Events("start resolved")' :
          /\ i = Len(emitted')
          /\ inflight \subseteq inflight'
          /\ Quiescent => \E k \in Events("drain")' : k < i]_vars

\* start() has resolved with two jobs in flight and one pending
C19_Witness ==
  /\ Events("start resolved") # {}
  /\ Cardinality(Events("dispatch")) = 2
  /\ running = 2
  /\ Len(jobs) = 1

\* C20: start() on a queue that is already started is a no-op: it emits no
\* event, leaves started and the stats timer (statsInterval,
\* timeOfLastStart) as they are, and changes pending, running and
\* processedJobs only by dispatching what was dispatchable already.
C20_Original ==
  [][(started /\ Events("start resolved")' # {}) =>
       /\ \A i \in DOMAIN emitted' :
            emitted'[i].type \in {"dispatch", "start resolved"}
       /\ UNCHANGED << started, statsInterval, timeOfLastStart >>
       /\ ~Ready => UNCHANGED << jobs, running, processedJobs >>]_vars

\* a pause() called when the last call of start() or pause() was a pause()
\* (or when start() was never called)
PausedAgain == ~started /\ PauseCalled

\* a call that changes no state of the queue and emits no event
NoStateChange ==
  /\ UNCHANGED << started, jobs, nextJobId, running, recentJobs,
                  processedJobs, statsInterval, timeOfLastStart, inflight >>
  /\ emitted' = << >>

C22_AdmissionDecision ==
  \A i \in Events("canRunMore") :
    emitted[i].arg =
      IF rateLimit = NULL
      THEN running = 0
      ELSE running
             + Cardinality({k \in DOMAIN recentJobs :
                              Now - recentJobs[k] <= ONE_SECOND})
             < rateLimit

\* one job runs, one ended exactly one second ago and one earlier: with
\* rateLimit 2 the window is full and the job is refused
C22_Witness ==
  /\ rateLimit = 2
  /\ running = 1
  /\ recentJobs = << Now - ONE_SECOND - 1, Now - ONE_SECOND >>
  /\ \E i \in Events("canRunMore") : emitted[i].arg = FALSE

\* the completions recorded that are at most one second old
RecentCompletions ==
  Cardinality({k \in DOMAIN recentJobs : Now - recentJobs[k] <= ONE_SECOND})

\* a push() on a started queue in which nothing runs and whose window is full
PushOnFullWindow ==
  /\ rateLimit # NULL
  /\ started /\ running = 0
  /\ RecentCompletions >= rateLimit
  /\ nextJobId' = nextJobId + 1

\* C23: in rate-limited mode, once rateLimit jobs have completed within the
\* last 1000 ms, a job pushed afterwards stays pending although running = 0
\* and the queue is started, and no job is dispatched until fewer than
\* rateLimit of the completions are at most 1000 ms old.
C23_WindowDelaysPush ==
  [][/\ PushOnFullWindow =>
          /\ Events("dispatch")' = {}
          /\ jobs' # << >>
          /\ jobs'[Len(jobs')].id = nextJobId
          /\ running' = 0
     /\ rateLimit # NULL =>
          \A i \in Events("dispatch")' :
            emitted'[i].running + RecentCompletions' < rateLimit]_vars

\* job 0 completed less than a second ago; job 1, pushed since, waits
C23_Witness ==
  /\ rateLimit = 1
  /\ started /\ running = 0
  /\ nextJobId = 2
  /\ jobLog[0].done = 1
  /\ recentJobs = << Now >>
  /\ Len(jobs) = 1 /\ jobs[1].id = 1
  /\ emitted = << >>
  /\ statsInterval # NULL

Min(a, b) == IF a <= b THEN a ELSE b

\* start() is called on a rate-limited queue with nothing in flight and no
\* completion in the last second
StartOnFreshWindow ==
  /\ rateLimit # NULL
  /\ running = 0
  /\ RecentCompletions = 0
  /\ Events("start resolved")' # {}

\* C24: with rateLimit = R, no completion in the trailing second and no job
\* in flight, start() on n pending jobs dispatches min(n, R) of them within
\* the call, before any completes: up to R jobs are in flight at once.
C24_BurstOnStart ==
  [][StartOnFreshWindow =>
       /\ Cardinality(Events("dispatch")') = Min(Len(jobs), rateLimit)
       /\ running' = Min(Len(jobs), rateLimit)
       /\ Cardinality(inflight') = Min(Len(jobs), rateLimit)
       /\ Len(jobs') = Len(jobs) - Min(Len(jobs), rateLimit)]_vars

\* three jobs pushed, rateLimit 2: start() has put two in flight
C24_Witness ==
  /\ rateLimit = 2
  /\ nextJobId = 3
  /\ recentJobs = << >>
  /\ Events("start resolved") # {}
  /\ inflight = {emitted[i].id : i \in Events("dispatch")}
  /\ Cardinality(inflight) = 2
  /\ Len(jobs) = 1

\* start(); pause(); is called in serial mode
SerialStart ==
  /\ rateLimit = NULL
  /\ Events("start resolved")' # {}

\* the future of a pause() resolves in serial mode
SerialPauseResolved ==
  /\ rateLimit = NULL
  /\ Events("pause resolved")' # {}

\* C25: in serial mode with k >= 1 jobs pending and nothing in flight,
\* start() followed by pause() dispatches exactly one job, the first of the
\* highest priority; when the future of pause() resolves that job has
\* completed (nothing is in flight) and the other k - 1 jobs are pending.
C25_Original ==
  [][/\ SerialStart =>
          /\ Cardinality(Events("dispatch")') = 1
          /\ \A i \in Events("dispatch")' :
               \A k \in DOMAIN jobs :
                 \/ JobOf(emitted'[i]).priority < jobs[k].priority
                 \/ /\ JobOf(emitted'[i]).priority = jobs[k].priority
                    /\ emitted'[i].id <= jobs[k].id
          /\ Len(jobs') = Len(jobs) - 1
     /\ SerialPauseResolved =>
          /\ running' = 0 /\ inflight' = {}
          /\ jobs' = jobs]_vars

\* a push() on a paused queue
PushWhilePaused == ~started /\ nextJobId' = nextJobId + 1

\* C26: a push made while the queue is paused is accepted into pending and
\* not dispatched; after a later start() the jobs pushed before the pause
\* and during it are all run, in priority order whatever their push time: a
\* dispatch takes the first pending job of the highest priority, and a
\* started queue with pending jobs keeps a job in flight or its interval
\* armed, without which no pending job runs any more.
C26_Original ==
  [][/\ PushWhilePaused =>
          /\ Len(jobs') = Len(jobs) + 1
          /\ jobs'[Len(jobs')].id = nextJobId
          /\ \A k \in DOMAIN jobs : jobs'[k] = jobs[k]
          /\ Events("dispatch")' = {}
          /\ UNCHANGED << running, inflight, started >>
     /\ \A i \in Events("dispatch")' :
          \A k \in DOMAIN emitted'[i].jobs :
            JobOf(emitted'[i]).priority <= emitted'[i].jobs[k].priority
     /\ (started' /\ jobs' # << >> /\ inflight' = {}) =>
          statsInterval' # NULL]_vars

\* ------------------------------------- two queues of the same process

\* `nextJobId` is a variable of the module qyu.js, shared by the queues of
\* the process: the push() of another queue takes the next id.
OtherQueuePush ==
  /\ nextJobId < MaxJobs
  /\ nextJobId' = nextJobId + 1
  /\ emitted' = << >>
  /\ UNCHANGED << rateLimit, errorListener, jobs, started, running,
                  recentJobs, processedJobs, statsInterval, timeOfLastStart,
                  inflight, nextTicks, drainListeners, pauseThens, jobLog,
                  lastStarted, latePush, startDates >>

SharedCounterNext ==
  \/ Push
  \/ OtherQueuePush
  \/ Start
  \/ Pause
  \/ \E id \in JobIds : JobSucceeds(id)
  \/ \E id \in JobIds : JobFails(id)
  \/ DrainTick
  \/ PauseThen
  \/ StatsTick
  \/ Tick

SharedCounterSpec == Init /\ [][SharedCounterNext]_vars

PendingIds == {jobs[k].id : k \in DOMAIN jobs}

\* C27: job ids are assigned at push time, strictly increase with push
\* order and are never reused, also when another queue of the process takes
\* ids: the pending ids are distinct, below the counter, and ascending in
\* push order; the counter never decreases; the only id that enters pending
\* is the one the counter held, and a job is dispatched from pending, leaves
\* it, and was neither in flight nor completed before.
C27_IdsNeverReused ==
  [][/\ nextJobId' >= nextJobId
     /\ \A k \in DOMAIN jobs' : jobs'[k].id < nextJobId'
     /\ \A k, l \in DOMAIN jobs' : k < l => jobs'[k].id < jobs'[l].id
     /\ PendingIds' \subseteq PendingIds \cup {nextJobId}
     /\ nextJobId \in PendingIds' => nextJobId' > nextJobId
     /\ \A id \in PendingIds' : id \notin inflight' /\ Settled(id)' = 0
     /\ \A i \in Events("dispatch")' :
          /\ emitted'[i].id \in PendingIds \cup {nextJobId}
          /\ emitted'[i].id \notin PendingIds'
          /\ emitted'[i].id \notin inflight
          /\ Settled(emitted'[i].id) = 0
          /\ \A j \in Events("dispatch")' :
               emitted'[j].id = emitted'[i].id => j = i]_vars

\* another queue took the id between those of two jobs of this queue: the
\* first has been dispatched and is in flight, the second is pending
C27_Witness ==
  /\ inflight = {0}
  /\ Len(jobs) = 1
  /\ jobs[1].id = 2
  /\ nextJobId = 3

\* ------------------------------------------------ a falsy `rateLimit`

\* the falsy values of `opts.rateLimit`: null (also the default of an
\* absent option) and 0
FalsyRateLimits == {NULL, 0}

FalsyInit ==
  /\ rateLimit \in FalsyRateLimits
  /\ errorListener \in BOOLEAN
  /\ jobs = << >>
  /\ started = FALSE
  /\ nextJobId = 0
  /\ running = 0
  /\ recentJobs = << >>
  /\ processedJobs = 0
  /\ statsInterval = NULL
  /\ timeOfLastStart = NULL
  /\ inflight = {}
  /\ nextTicks = 0
  /\ drainListeners = 0
  /\ pauseThens = 0
  /\ jobLog = [id \in JobIds |-> [done |-> 0, error |-> 0, resolved |-> FALSE]]
  /\ lastStarted = [id |-> NULL, priority |-> NULL]
  /\ latePush = FALSE
  /\ startDates = << >>
  /\ emitted = << >>

FalsySpec == FalsyInit /\ [][Next]_vars

\* a completion whose handler ran to its end
CompletionHandled ==
  Events("done")' # {} \/ (errorListener /\ Events("error")' # {})

\* C28: with a falsy rateLimit the queue processes jobs in series: at most
\* one job is in flight; a start() that finds pending jobs and nothing in
\* flight dispatches one; and when the job in flight completes while the
\* queue is started and jobs are pending, the next one is dispatched in that
\* step, whatever the recent completions.
C28_Original ==
  [][/\ running' <= 1
     /\ (Events("start resolved")' # {} /\ jobs # << >> /\ running = 0) =>
          Cardinality(Events("dispatch")') = 1
     /\ (CompletionHandled /\ started /\ jobs # << >>) =>
          Cardinality(Events("dispatch")') = 1]_vars

\* dispatch returned because admission was refused: the queue is started,
\* jobs are pending and the rate limiter does not admit one now
AdmissionRefused == started /\ jobs # << >> /\ ~canRunMore(Cur)

\* C29: once started, with no further client call, every pending job is
\* eventually dispatched: whenever dispatch has returned because admission
\* was refused, something is left to invoke it again, a job in flight whose
\* completion does, or the armed interval whose tick does. Without both,
\* no step but a client call dispatches a pending job.
C29_Original ==
  AdmissionRefused => (inflight # {} \/ statsInterval # NULL)

\* C30: a drain event is emitted only while started = true: the queue is
\* started at every drain event, and the completion of the last job in
\* flight of a paused queue with nothing pending emits none.
C30_Original ==
  \A i \in Events("drain") : emitted[i].started

\* a step in which _processJobs ran: a push(), a start(), a stats tick, or a
\* completion whose handler reached it
DispatchTick ==
  \/ nextJobId' = nextJobId + 1
  \/ Events("start resolved")' # {}
  \/ Events("stats")' # {}
  \/ CompletionHandled

\* C31: the dispatch loop is maximal: at the end of every dispatch tick it
\* is not the case that the queue is started, jobs are pending and the rate
\* limiter would admit another job.
C31_DispatchLoopMaximal ==
  [][DispatchTick => ~Ready']_vars

\* the loop ran twice and stopped on a refused admission, a job still pending
C31_Witness ==
  /\ Cardinality(Events("dispatch")) = 2
  /\ started
  /\ jobs # << >>

\* C32: pause() called while jobs are in flight does not disarm the stats
\* timer at once: the call leaves the timer as it is and waits for 'drain';
\* while the queue stays paused with a job in flight no step disarms an
\* armed timer; and the timer is disarmed when the future of pause()
\* resolves.
C32_Original ==
  [][/\ (PauseCalled /\ running > 0) =>
          /\ statsInterval' = statsInterval
          /\ timeOfLastStart' = timeOfLastStart
          /\ drainListeners' = drainListeners + 1
     /\ (~started /\ ~started' /\ running' > 0 /\ statsInterval # NULL) =>
          statsInterval' # NULL
     /\ Events("pause resolved")' # {} => statsInterval' = NULL]_vars

\* ------------------------------------------------- toggle taken alone

\* processedJobs, for toggle taken alone
MaxProcessed == 2

\* RateLimiter.statsInterval: no timer, a timer with a whole interval to
\* run, a timer that is due
TimerStates == {NULL, STATS_INTERVAL, 0}

\* RateLimiter.timeOfLastStart: never armed, armed now, armed earlier
StartTimes == {NULL, Now, Now - TickMs, Now - MaxAge}

\* a rate limiter in any state; a timer is armed by toggle(true) only, which
\* sets timeOfLastStart
ToggleInit ==
  /\ rateLimit \in RateLimits
  /\ errorListener = TRUE
  /\ jobs = << >>
  /\ started = FALSE
  /\ nextJobId = 0
  /\ running \in 0 .. MaxRunning
  /\ recentJobs \in EndDateSeqs
  /\ processedJobs \in 0 .. MaxProcessed
  /\ statsInterval \in TimerStates
  /\ timeOfLastStart \in StartTimes
  /\ statsInterval # NULL => timeOfLastStart # NULL
  /\ inflight = {}
  /\ nextTicks = 0
  /\ drainListeners = 0
  /\ pauseThens = 0
  /\ jobLog = [id \in JobIds |-> [done |-> 0, error |-> 0, resolved |-> FALSE]]
  /\ lastStarted = [id |-> NULL, priority |-> NULL]
  /\ latePush = FALSE
  /\ startDates = << >>
  /\ emitted = << >>

\* toggle(enable) is called: the call is recorded with its argument
CallToggle(enable) ==
  \E s \in {toggle(Enter, enable)} : Commit(Emit(s, "toggle", NULL, enable))

ToggleNext == \E enable \in BOOLEAN : CallToggle(enable)

ToggleSpec == ToggleInit /\ [][ToggleNext]_vars

\* C33: toggle is idempotent: toggle(true) on an armed timer and
\* toggle(false) on a disarmed one change nothing; only toggle(true) on a
\* disarmed timer sets timeOfLastStart to now and processedJobs to 0, and it
\* arms the timer; toggle(false) on an armed timer disarms it and keeps
\* both; no toggle changes running or the recorded completions.
C33_ToggleIdempotent ==
  [][\A i \in Events("toggle")' :
       LET enable == emitted'[i].arg
           armed == statsInterval # NULL
       IN  /\ running' = running
           /\ recentJobs' = recentJobs
           /\ (enable = armed) =>
                UNCHANGED << statsInterval, timeOfLastStart, processedJobs >>
           /\ (enable /\ ~armed) =>
                /\ statsInterval' = STATS_INTERVAL
                /\ timeOfLastStart' = Now
                /\ processedJobs' = 0
           /\ (~enable /\ armed) =>
                /\ statsInterval' = NULL
                /\ UNCHANGED << timeOfLastStart, processedJobs >>]_vars

\* toggle(true) was called on a timer that was armed earlier and had counted
\* jobs: the timer is due as before, the date and the count are kept
C33_Witness ==
  /\ \E i \in Events("toggle") : emitted[i].arg = TRUE
  /\ statsInterval = 0
  /\ timeOfLastStart = Now - TickMs
  /\ processedJobs = MaxProcessed

\* the number of jobs dispatched in the step
Dispatched == Cardinality(Events("dispatch")')

\* C34: at every stats emission processedJobs is the number of jobs
\* dispatched since the stats timer was last armed, and nbJobsPerSecond is
\* the quotient of 1000 x processedJobs by the milliseconds since that
\* arming, a cumulative average. The step that arms the timer sets the date
\* to now and leaves in the count the jobs it dispatches; while the timer
\* stays armed the count grows by the jobs dispatched and the date moves
\* back with the clock only; a stats event reports the count and the age of
\* the date as they are when the timer fires, at least one interval after
\* the arming.
C34_StatsCumulative ==
  [][/\ \A i \in Events("stats")' :
          /\ statsInterval # NULL
          /\ emitted'[i].arg =
               << ONE_SECOND * processedJobs, Now - timeOfLastStart >>
          /\ Now - timeOfLastStart >= STATS_INTERVAL
     /\ (statsInterval = NULL /\ statsInterval' # NULL) =>
          /\ processedJobs' = Dispatched
          /\ timeOfLastStart' = Now
     /\ (statsInterval # NULL /\ statsInterval' # NULL) =>
          /\ processedJobs' = processedJobs + Dispatched
          /\ timeOfLastStart' =
               IF statsInterval' = statsInterval - TickMs
               THEN Older(timeOfLastStart)
               ELSE timeOfLastStart]_vars

\* a stats event reports 2 jobs dispatched in the 1000 ms since the arming,
\* when no job was dispatched in the last interval
C34_Witness ==
  /\ \E i \in Events("stats") :
       emitted[i].arg = << 2 * ONE_SECOND, 2 * STATS_INTERVAL >>
  /\ Len(startDates) < 2

\* the milliseconds since the stats timer was armed
ArmedFor == Now - timeOfLastStart

\* C35: while the stats timer stays armed for a period of length T, the
\* number of stats events is the whole part of T / statsInterval, within
\* one event: the timer is due at the whole multiples of statsInterval since
\* its arming and at no other instant, one stats event is emitted at each
\* of them, from the first multiple on, and none at any other step; the
\* clock does not pass a due timer. (The event of the instant at which the
\* timer is disarmed may be missing: that is the one event.)
C35_StatsEveryInterval ==
  [][/\ statsInterval' # NULL =>
          /\ statsInterval' \in 0 .. STATS_INTERVAL
          /\ (Now - timeOfLastStart' + statsInterval') % STATS_INTERVAL = 0
     /\ Cardinality(Events("stats")') <= 1
     /\ Events("stats")' # {} =>
          /\ statsInterval = 0
          /\ statsInterval' = STATS_INTERVAL
          /\ ArmedFor >= STATS_INTERVAL
          /\ ArmedFor % STATS_INTERVAL = 0
          /\ timeOfLastStart' = timeOfLastStart
     /\ (statsInterval = 0 /\ statsInterval' # NULL /\ Events("stats")' = {}) =>
          /\ statsInterval' = 0
          /\ timeOfLastStart' = timeOfLastStart]_vars

\* the second stats event of a timer armed two intervals ago
C35_Witness ==
  /\ Events("stats") # {}
  /\ ArmedFor = 2 * STATS_INTERVAL
  /\ statsInterval = STATS_INTERVAL

\* ------------------------------------------------ any priority option

\* push() calls in a run of PrioritySpec
MaxJobsAnyPriority == 2

\* opts.priority of a push(): absent (NULL), the ends of [1, 10], and the
\* integers next to them
PriorityOptions == {NULL, 0, 1, LOWEST_PRIO, LOWEST_PRIO + 1}

\* Object.assign({}, DEFAULT_JOB_OPTIONS, opts).priority
PriorityOf(option) == IF option = NULL THEN LOWEST_PRIO ELSE option

\* push(job, opts) with any priority option; the call is recorded with the
\* option it was given
PushAnyPriority ==
  /\ nextJobId < MaxJobsAnyPriority
  /\ \E option \in PriorityOptions :
       \E s \in {push(Enter, PriorityOf(option))} :
         Commit(Emit(s, "push", nextJobId, option))

PriorityNext ==
  \/ PushAnyPriority
  \/ Start
  \/ Pause
  \/ \E id \in JobIds : JobSucceeds(id)
  \/ \E id \in JobIds : JobFails(id)
  \/ DrainTick
  \/ PauseThen
  \/ StatsTick
  \/ Tick

PrioritySpec == Init /\ [][PriorityNext]_vars

\* the priority of the entry that a push() stored: the entry is pending, or
\* the push() dispatched it
StoredPriorities(id) ==
  {jobs[k].priority : k \in {k \in DOMAIN jobs : jobs[k].id = id}} \cup
  {JobOf(emitted[d]).priority :
     d \in {d \in Events("dispatch") : emitted[d].id = id}}

\* C36: every entry held in pending has an integer priority in [1, 10]; a
\* push without a priority option stores priority 10; a push with a
\* priority outside [1, 10] puts no out-of-range entry into pending.
C36_Original ==
  /\ \A k \in DOMAIN jobs : jobs[k].priority \in 1 .. LOWEST_PRIO
  /\ \A i \in Events("push") :
       emitted[i].arg = NULL =>
         StoredPriorities(emitted[i].id) = {LOWEST_PRIO}

\* what push() stores instead: the option it is given, whatever it is, and
\* the default when it is given none
C36_StoresTheOption ==
  \A i \in Events("push") :
    StoredPriorities(emitted[i].id) = {PriorityOf(emitted[i].arg)}

\* C37: a running job is never interrupted or re-queued by a later push of
\* a higher-priority job: a push() takes no job out of flight, a job leaves
\* flight by its own done or error event only and never goes back to
\* pending; in serial mode a job is dispatched only when nothing is running,
\* so the job pushed later waits for the running one to complete, and it is
\* then taken before every pending job of lower priority.
C37_NoPreemption ==
  [][/\ nextJobId' = nextJobId + 1 => inflight \subseteq inflight'
     /\ \A id \in inflight \ inflight' :
          \E i \in Outcomes' : emitted'[i].id = id
     /\ PendingIds' \cap inflight = {}
     /\ \A i \in Events("dispatch")' :
          /\ rateLimit = NULL => emitted'[i].running = 0
          /\ \A k \in DOMAIN emitted'[i].jobs :
               JobOf(emitted'[i]).priority <= emitted'[i].jobs[k].priority]_vars

\* serial mode: jobs 1 (priority 10) and 2 (priority 1) were pushed while
\* job 0 was running; job 0 has completed and job 2 is taken before job 1
C37_Witness ==
  /\ rateLimit = NULL
  /\ latePush
  /\ \E j \in Events("done") : emitted[j].id = 0
  /\ \E i \in Events("dispatch") :
       /\ emitted[i].id = 2
       /\ JobOf(emitted[i]).priority = 1
       /\ \E k \in DOMAIN emitted[i].jobs :
            /\ emitted[i].jobs[k].id = 1
            /\ emitted[i].jobs[k].priority = LOWEST_PRIO

\* C38: in every reachable state, if the queue is started and a job is
\* pending or in flight, then the stats timer is armed.
C38_Original ==
  (started /\ (jobs # << >> \/ inflight # {})) => statsInterval # NULL

\* ------------------------------------------- a 'done' subscriber throws

\* job.job().then(A).catch(B), with A and B the two bindings of _jobEnded:
\* the promise is fulfilled and A runs; a subscriber of 'done' throws, so
\* emit('done') throws out of A after rateLimiter.jobEnded() and before
\* pushPromise.resolve, _drainIfNoMore and _processJobs; the promise of
\* then(A) is rejected and B runs: _jobEnded(job, true, exception).
_jobEnded_thenCatch(s, id) ==
  LET s1 == jobEnded(s)
      s2 == [Emit(s1, "done", id, JobResult(id))
               EXCEPT !.jobLog[id].done = @ + 1]
  IN  _jobEnded(s2, id, TRUE)

\* the promise of a running job is fulfilled and the subscriber of 'done'
\* throws
JobSucceedsDoneThrows(id) ==
  /\ id \in inflight
  /\ \E s \in {_jobEnded_thenCatch([Enter EXCEPT !.inflight = @ \ {id}], id)} :
       Commit(s)

ThrowingNext ==
  \/ PushFew
  \/ Start
  \/ Pause
  \/ \E id \in JobIds : JobSucceeds(id)
  \/ \E id \in JobIds : JobSucceedsDoneThrows(id)
  \/ \E id \in JobIds : JobFails(id)
  \/ DrainTick
  \/ PauseThen
  \/ StatsTick
  \/ Tick

ThrowingSpec == Init /\ [][ThrowingNext]_vars

\* C39: the completion handler runs once per dispatched job even when a
\* subscriber of done throws: a job that succeeded is not also reported
\* through an error event, no job has more than one event, and running,
\* decremented once per job, is never negative and counts the jobs in
\* flight.
C39_Original ==
  /\ running >= 0
  /\ running = Cardinality(inflight)
  /\ \A id \in JobIds :
       /\ ~(jobLog[id].done > 0 /\ jobLog[id].error > 0)
       /\ Settled(id) <= 1

\* the done and error events of the jobs 0 .. n - 1
RECURSIVE OutcomesUpTo(_)
OutcomesUpTo(n) ==
  IF n = 0 THEN 0 ELSE OutcomesUpTo(n - 1) + Settled(n - 1)

\* the places a pushed job is in: pending, in flight, completed
PlacesOf(id) ==
  (IF id \in PendingIds THEN {"pending"} ELSE {}) \cup
  (IF id \in inflight THEN {"in flight"} ELSE {}) \cup
  (IF Settled(id) > 0 THEN {"completed"} ELSE {})

\* C40: job conservation: every pushed job is in exactly one of pending, in
\* flight and completed (its done or error event emitted), once; a job that
\* was not pushed is in none; and the number of pushes is the number of
\* pending jobs plus running plus the number of done and error events.
C40_JobConservation ==
  /\ \A id \in JobIds :
       /\ id < nextJobId => Cardinality(PlacesOf(id)) = 1
       /\ id >= nextJobId => PlacesOf(id) = {}
       /\ Cardinality({k \in DOMAIN jobs : jobs[k].id = id}) <= 1
       /\ Settled(id) <= 1
  /\ nextJobId = Len(jobs) + running + OutcomesUpTo(MaxJobs)

\* three jobs pushed: one is pending, one in flight, one has failed
C40_Witness ==
  /\ nextJobId = 3
  /\ Len(jobs) = 1
  /\ running = 1
  /\ \E id \in JobIds : jobLog[id].error = 1

====
